---- MODULE Spec2Model ----
(***************************************************************************)
(* Message-to-expense pipeline of the bot service:                         *)
(*   LLMService.extract_expense   (LLM call, parse, fallback parse, retry) *)
(*   ExpenseExtraction            (schema validation and rounding)         *)
(*   ExpenseService.process_message / create_expense (decision, insert)    *)
(*   ExpenseService.get_user_expenses (listing)                            *)
(*   Settings.get_llm_provider, LLMService construction and is_configured  *)
(*   POST /process (request validation, user lookup, concurrent requests,  *)
(*   cancellation)                                                         *)
(*                                                                         *)
(* Representation                                                          *)
(*   Optional values   None is {}, a present value v is {v}.               *)
(*   float amounts     integers counting thousandths (20.999 is 20999).    *)
(*   Decimal           [unscaled, places]: unscaled / 10^places.           *)
(*   stored amounts    integers counting hundredths (DECIMAL(10, 2)).      *)
(*   completion text   a sequence of tokens: prose, "{", "}", or the       *)
(*                     content between two braces.                         *)
(***************************************************************************)
EXTENDS Integers, Sequences, FiniteSets, TLC

VARIABLES
    pc,          \* per task: "idle", "calling", "backoff", "done", "rejected", "cancelled"
    req,         \* per task: arguments of the process_message call in flight
    attemptLog,  \* per task: result of every attempt of extract_expense so far
    extraction,  \* per task: what extract_expense returned (optional)
    raised,      \* per task: the error extract_expense raised (optional)
    storeFault,  \* per task: where the persistence branch failed ("none" if it did not)
    outcome,     \* per task: the ExpenseResponse returned (optional)
    before,      \* per task: the expenses table when the call started
    waits,       \* per task: the delays slept between the attempts so far
    expenses,    \* the expenses table: a set of rows
    calls,       \* number of process_message calls started
    schemaIn,    \* field values handed to the ExpenseExtraction constructor
    schemaOut,   \* what the constructor produced for schemaIn (optional)
    parseIn,     \* completion text handed to the parsing steps of extract_expense
    parseOut,    \* what strict parsing and the fallback made of parseIn (optional)
    settings,    \* the Settings an LLMService is built from (optional)
    service,     \* what LLMService(...) gave: a client or the error raised (optional)
    configured,  \* what is_configured() returned (optional)
    invoked,     \* whether the service's client was ever called
    query,       \* arguments of get_user_expenses (optional)
    listing,     \* what get_user_expenses returned for query (optional)
    users,       \* the users table: a set of rows
    http,        \* per task: body of the POST /process request received (optional)
    cancelled,   \* per task: the request was cancelled while in flight
    effects      \* per task: what the request did to the store and the LLM

callVars == <<pc, req, attemptLog, extraction, raised, storeFault, outcome, before,
              waits,
              expenses, calls>>

schemaVars == <<schemaIn, schemaOut>>

parseVars == <<parseIn, parseOut>>

configVars == <<settings, service, configured, invoked>>

listVars == <<query, listing>>

apiVars == <<users, http, cancelled, effects>>

\* Everything beside the process_message calls and the schema constructor.
otherVars == <<parseVars, configVars, listVars, apiVars>>

vars == <<callVars, schemaVars, otherVars>>

---------------------------------------------------------------------------
(* Bounds *)

\* process_message calls started in one behaviour
MaxCalls == 2

\* tokens of prose before, and after, the JSON object of a completion
MaxProse == 2

\* rows of the expenses table when get_user_expenses is called
MaxRows == 3

---------------------------------------------------------------------------
(* Optional values *)

None == {}

Some(v) == {v}

Get(o) == CHOOSE v \in o : TRUE

---------------------------------------------------------------------------
(* schemas.py *)

ExpenseCategory ==
    {"Housing", "Transportation", "Food", "Utilities", "Insurance",
     "Medical/Healthcare", "Savings", "Debt", "Education", "Entertainment",
     "Other"}

\* max_length of ExpenseCreate.description
DescriptionMaxLength == 500

\* decimal_places of ExpenseCreate.amount
AmountDecimalPlaces == 2

\* round(v, 2) of a float v > 0 given in thousandths; the result is in
\* thousandths too.  A value whose third decimal is 5 is covered only when the
\* float holds it exactly (a multiple of 0.125): round() then rounds half to
\* even.  The input sets below keep to such values.
Round2_HalfUp(v) == ((v + 5) \div 10) * 10

Round2(v) ==
    LET q == v \div 10
        r == v % 10
    IN  IF r < 5 THEN q * 10
        ELSE IF r > 5 THEN (q + 1) * 10
        ELSE IF q % 2 = 0 THEN q * 10 ELSE (q + 1) * 10

ValidationError == [kind |-> "ValidationError", value |-> None]

Ok(v) == [kind |-> "ok", value |-> Some(v)]

\* Field(None, gt=0) of ExpenseExtraction.amount
AmountGtZero_NonNegative(a) == a >= 0

AmountGtZero(a) == a > 0

\* ExpenseExtraction(**data): is_expense is required, category must be a
\* member of the enumeration, amount must be > 0 and is then rounded by
\* validate_amount.
ExpenseExtraction_FieldsOnlyWhenExpense(data) ==
    IF data.is_expense = None THEN ValidationError
    ELSE IF ~(data.category \subseteq ExpenseCategory) THEN ValidationError
    ELSE IF \E a \in data.amount : ~AmountGtZero(a) THEN ValidationError
    ELSE IF ~Get(data.is_expense)
    THEN Ok([is_expense |-> FALSE, description |-> None, amount |-> None,
             category |-> None])
    ELSE Ok([is_expense  |-> TRUE,
             description |-> data.description,
             amount      |-> {Round2(a) : a \in data.amount},
             category    |-> data.category])

ExpenseExtraction(data) ==
    IF data.is_expense = None THEN ValidationError
    ELSE IF ~(data.category \subseteq ExpenseCategory) THEN ValidationError
    ELSE IF \E a \in data.amount : ~AmountGtZero(a) THEN ValidationError
    ELSE Ok([is_expense  |-> Get(data.is_expense),
             description |-> data.description,
             amount      |-> {Round2(a) : a \in data.amount},
             category    |-> data.category])

\* max_length of MessageRequest.message
MessageMaxLength == 500

\* Whether MessageRequest(**body) validates, for a body whose fields may be
\* missing: user_id > 0 and 1 <= len(message) <= 500.
MessageRequestValid_NoLengthCheck(body) ==
    /\ body.user_id # None
    /\ Get(body.user_id) > 0
    /\ body.message # None

MessageRequestValid(body) ==
    /\ body.user_id # None
    /\ Get(body.user_id) > 0
    /\ body.message # None
    /\ Len(Get(body.message)) >= 1
    /\ Len(Get(body.message)) <= MessageMaxLength

\* Decimal(str(x)) of a float x given in thousandths: str() prints the
\* shortest decimal that reads back as x, with at least one fractional digit.
DecimalOfStr(x) ==
    IF x % 10 # 0 THEN [unscaled |-> x, places |-> 3]
    ELSE IF x % 100 # 0 THEN [unscaled |-> x \div 10, places |-> 2]
    ELSE [unscaled |-> x \div 100, places |-> 1]

\* Whether ExpenseCreate(user_id, description, amount, category) validates,
\* for optional description and category and a Decimal amount: user_id > 0,
\* 1 <= len(description) <= 500, amount > 0 with at most 2 decimal places,
\* category a member of the enumeration.
ExpenseCreateValid(user_id, description, amount, category) ==
    /\ user_id > 0
    /\ description # None
    /\ Len(Get(description)) >= 1
    /\ Len(Get(description)) <= DescriptionMaxLength
    /\ amount.unscaled > 0
    /\ amount.places <= AmountDecimalPlaces
    /\ category # None
    /\ category \subseteq ExpenseCategory

\* A Decimal of at most 2 places as stored in the DECIMAL(10, 2) column, in
\* hundredths.
StoredAmount_Unscaled(amount) == amount.unscaled

StoredAmount(amount) ==
    IF amount.places = 1 THEN amount.unscaled * 10 ELSE amount.unscaled

---------------------------------------------------------------------------
(* expense_service.py *)

MsgNotExpense ==
    "This doesn't look like an expense. Try something like: 'Pizza 20 reais'"

MsgIncomplete ==
    "Could not extract all expense details. Please provide description, amount, and try again."

MsgError ==
    "Sorry, there was an error processing your expense. Please try again."

MsgAdded(category) == category \o " expense added"

\* ExpenseResponse(success, message, expense_id=None)
ExpenseResponse(success, message, expense_id) ==
    [success |-> success, message |-> message, expense_id |-> expense_id]

\* The response of the except branch of process_message.
ErrorResponse_Success == ExpenseResponse(TRUE, MsgError, None)

ErrorResponse == ExpenseResponse(FALSE, MsgError, None)

\* Errors raised inside process_message that derive from Exception: by the
\* chain, by the parsers and the schemas, by Decimal, by the session.
Exceptions ==
    {"ProviderError", "OutputParserException", "ValueError", "JSONDecodeError",
     "ValidationError", "InvalidOperation", "OperationalError"}

\* except Exception as e
Caught_ValueErrorOnly(e) == e \in {"ValueError", "JSONDecodeError", "ValidationError"}

Caught(e) == e \in Exceptions

\* What the caller of process_message gets when e is raised in the try
\* block: the error response, or nothing when e passes the except clause.
ExceptBranch(e) == IF Caught(e) THEN Some(ErrorResponse) ELSE None

\* Steps of the persistence branch that may raise: db.commit(), db.refresh(),
\* and the logging between the insert and the success response.
StoreFaults == {"none", "commit", "refresh", "logging"}

\* The error fault f raises: the session's for commit and refresh, and for
\* the logging one raised while its arguments are evaluated.
FaultError(f) == IF f = "logging" THEN "ValueError" ELSE "OperationalError"

\* Whether the row is in the table after create_expense met fault f.
Committed_Never(f) == FALSE

Committed(f) == f # "commit"

\* The id the table gives a new row (autoincrement primary key).
NextId(rows) == Cardinality(rows) + 1

\* create_expense: the row db.add() and db.commit() insert (call is the
\* process_message call that inserts it, kept for the record; added_at, the
\* time of the insert, is counted in inserts).
NewRow(r, ext, rows) ==
    [id          |-> NextId(rows),
     added_at    |-> NextId(rows),
     user_id     |-> r.user_id,
     description |-> Get(ext.description),
     amount      |-> StoredAmount(DecimalOfStr(Get(ext.amount))),
     category    |-> Get(ext.category),
     call        |-> r.call]

\* .filter(Expense.user_id == user_id)
OwnedBy(rows, user_id) == {row \in rows : row.user_id = user_id}

\* .order_by(Expense.added_at.desc()): the orders the database may give the
\* rows in, newest first; rows of equal added_at come in any order.
OrderByAddedAtDesc(rows) ==
    {s \in [1..Cardinality(rows) -> rows] :
        /\ \A i, j \in 1..Cardinality(rows) : i # j => s[i] # s[j]
        /\ \A i, j \in 1..Cardinality(rows) :
              i < j => s[i].added_at >= s[j].added_at}

\* .limit(limit).offset(offset) of an ordered result, for limit >= 0 and
\* offset >= 0: LIMIT limit OFFSET offset skips first, then cuts.
Page_LimitFirst(s, limit, offset) ==
    LET cut == SubSeq(s, 1, IF limit < Len(s) THEN limit ELSE Len(s))
    IN  SubSeq(cut, offset + 1, Len(cut))

Page(s, limit, offset) ==
    LET last == IF offset + limit < Len(s) THEN offset + limit ELSE Len(s)
    IN  SubSeq(s, offset + 1, last)

\* get_user_expenses(user_id, db, limit, offset): the lists .all() may return.
GetUserExpenses(rows, user_id, limit, offset) ==
    {Page(s, limit, offset) : s \in OrderByAddedAtDesc(OwnedBy(rows, user_id))}

\* if not extraction.is_expense
IsExpense_OrComplete(ext) ==
    \/ ext.is_expense
    \/ (ext.description # None /\ ext.amount # None /\ ext.category # None)

IsExpense(ext) == ext.is_expense

\* all([extraction.description, extraction.amount, extraction.category])
AllPresent_Any(ext) ==
    \/ ext.description # None
    \/ ext.amount # None
    \/ ext.category # None

AllPresent(ext) ==
    /\ ext.description # None /\ Get(ext.description) # ""
    /\ ext.amount # None /\ Get(ext.amount) # 0
    /\ ext.category # None

\* What building ExpenseCreate from ext raises: Decimal(str(None)) raises
\* InvalidOperation, a field that fails validation ValidationError; "none"
\* when the ExpenseCreate is built.
ExpenseCreateRaises(r, ext) ==
    IF ext.amount = None THEN "InvalidOperation"
    ELSE IF ~ExpenseCreateValid(r.user_id, ext.description,
                                DecimalOfStr(Get(ext.amount)), ext.category)
    THEN "ValidationError"
    ELSE "none"

\* Whether process_message reaches create_expense for ext.
ReachesStore(r, ext) ==
    /\ IsExpense(ext)
    /\ AllPresent(ext)
    /\ ExpenseCreateRaises(r, ext) = "none"

\* process_message after extract_expense returned ext, with store fault f:
\* the response and the expenses table it leaves.
ProcessExtraction(r, ext, f, rows) ==
    IF ~IsExpense(ext)
    THEN [outcome |-> Some(ExpenseResponse(FALSE, MsgNotExpense, None)),
          rows    |-> rows]
    ELSE IF ~AllPresent(ext)
    THEN [outcome |-> Some(ExpenseResponse(FALSE, MsgIncomplete, None)),
          rows    |-> rows]
    ELSE IF ExpenseCreateRaises(r, ext) # "none"
    THEN [outcome |-> ExceptBranch(ExpenseCreateRaises(r, ext)), rows |-> rows]
    ELSE LET row == NewRow(r, ext, rows)
         IN  [outcome |-> IF f = "none"
                          THEN Some(ExpenseResponse(TRUE, MsgAdded(Get(ext.category)),
                                                    Some(row.id)))
                          ELSE ExceptBranch(FaultError(f)),
              rows    |-> IF Committed(f) THEN rows \cup {row} ELSE rows]

---------------------------------------------------------------------------
(* llm_service.py *)

\* stop_after_attempt(3)
StopAfterAttempt == 3

\* Tokens of a completion text.
Prose == [ch |-> "p", body |-> None]

LBrace == [ch |-> "{", body |-> None]

RBrace == [ch |-> "}", body |-> None]

\* The content between two braces when it is the members of a JSON object
\* holding the fields of data.
Members(data) == [ch |-> "members", body |-> Some(data)]

\* The content between two braces when it is not JSON.
Junk == [ch |-> "junk", body |-> None]

Err(kind) == [kind |-> kind, value |-> None]

\* text.find(c): the first position of c, 0 when there is none (positions
\* count from 1, so Python's -1 is 0 here).
Find_Last(text, c) ==
    IF \E i \in 1..Len(text) : text[i].ch = c
    THEN CHOOSE i \in 1..Len(text) :
            /\ text[i].ch = c
            /\ \A j \in (i + 1)..Len(text) : text[j].ch # c
    ELSE 0

Find(text, c) ==
    IF \E i \in 1..Len(text) : text[i].ch = c
    THEN CHOOSE i \in 1..Len(text) :
            /\ text[i].ch = c
            /\ \A j \in 1..(i - 1) : text[j].ch # c
    ELSE 0

\* text.rfind(c): the last position of c, 0 when there is none.
RFind_First(text, c) ==
    IF \E i \in 1..Len(text) : text[i].ch = c
    THEN CHOOSE i \in 1..Len(text) :
            /\ text[i].ch = c
            /\ \A j \in 1..(i - 1) : text[j].ch # c
    ELSE 0

RFind(text, c) ==
    IF \E i \in 1..Len(text) : text[i].ch = c
    THEN CHOOSE i \in 1..Len(text) :
            /\ text[i].ch = c
            /\ \A j \in (i + 1)..Len(text) : text[j].ch # c
    ELSE 0

\* Whether json.loads accepts s: one object, nothing around it.
IsJsonObject(s) ==
    /\ Len(s) = 3
    /\ s[1] = LBrace
    /\ s[2].ch = "members"
    /\ s[3] = RBrace

\* _extract_and_parse_json: slice from the first "{" to the last "}",
\* json.loads, ExpenseExtraction(**data).
ExtractAndParseJson(text) ==
    LET start_idx == Find(text, "{")
        end_idx   == RFind(text, "}")
        json_str  == SubSeq(text, start_idx, end_idx)
    IN  IF start_idx = 0 \/ end_idx = 0 THEN Err("ValueError")
        ELSE IF ~IsJsonObject(json_str) THEN Err("JSONDecodeError")
        ELSE ExpenseExtraction(Get(json_str[2].body))

\* self.parser.parse(response_text): the text must be the JSON object itself.
ParserParse(text) ==
    IF IsJsonObject(text)
    THEN ExpenseExtraction(Get(text[2].body))
    ELSE Err("OutputParserException")

\* One pass through the body of extract_expense for what the chain did:
\* raise, or return a completion text.
ExtractAttempt(c) ==
    IF c.kind = "error" THEN Err("ProviderError")
    ELSE LET parsed_data == ParserParse(c.text)
         IN  IF parsed_data.kind = "ok" THEN parsed_data
             ELSE ExtractAndParseJson(c.text)

\* tenacity retries an attempt that raised, never one that returned.
RetryOn_NonExpense(res) ==
    \/ res.kind # "ok"
    \/ \E e \in res.value : ~e.is_expense

RetryOn_BaseException(res) == res.kind # "ok"

RetryOn_ProviderErrorOnly(res) == res.kind = "ProviderError"

RetryOn(res) == res.kind \in Exceptions

\* reraise=True: when tenacity gives up, the call raises the exception of
\* the last attempt itself (log holds the results of all attempts).
Reraised_RetryError(log) == "RetryError"

Reraised(log) == log[Len(log)].kind

\* wait_exponential(multiplier=1, min=2, max=10), with tenacity's exp_base
WaitMultiplier == 1

WaitMin == 2

WaitMax == 10

WaitExpBase == 2

RECURSIVE Power(_, _)
\* base ** e for e >= 0
Power(base, e) == IF e = 0 THEN 1 ELSE base * Power(base, e - 1)

\* The delay tenacity sleeps after attempt number attempt_number failed:
\* multiplier * exp_base ** (attempt_number - 1), kept between min and max.
WaitExponential_FromAttemptNumber(attempt_number) ==
    LET result == WaitMultiplier * Power(WaitExpBase, attempt_number)
        capped == IF result < WaitMax THEN result ELSE WaitMax
    IN  IF capped > WaitMin THEN capped ELSE WaitMin

WaitExponential(attempt_number) ==
    LET result == WaitMultiplier * Power(WaitExpBase, attempt_number - 1)
        capped == IF result < WaitMax THEN result ELSE WaitMax
    IN  IF capped > WaitMin THEN capped ELSE WaitMin

\* tenacity stops retrying once attempt number n has failed.
ShouldStop_OneMore(n) == n > StopAfterAttempt

ShouldStop(n) == n >= StopAfterAttempt

---------------------------------------------------------------------------
(* config.py and the construction of LLMService *)
(* A model name is a sequence of characters, so that lower() and the "in"    *)
(* test are computed; an API key is an optional string.                     *)

UpperCase ==
    <<"A", "B", "C", "D", "E", "F", "G", "H", "I", "J", "K", "L", "M",
      "N", "O", "P", "Q", "R", "S", "T", "U", "V", "W", "X", "Y", "Z">>

LowerCase ==
    <<"a", "b", "c", "d", "e", "f", "g", "h", "i", "j", "k", "l", "m",
      "n", "o", "p", "q", "r", "s", "t", "u", "v", "w", "x", "y", "z">>

\* str.lower()
Lower(name) ==
    [i \in 1..Len(name) |->
        IF \E k \in 1..Len(UpperCase) : UpperCase[k] = name[i]
        THEN LowerCase[CHOOSE k \in 1..Len(UpperCase) : UpperCase[k] = name[i]]
        ELSE name[i]]

\* sub in name
Contains(name, sub) ==
    \E i \in 1..(Len(name) - Len(sub) + 1) :
        SubSeq(name, i, i + Len(sub) - 1) = sub

Gpt == <<"g", "p", "t">>

Claude == <<"c", "l", "a", "u", "d", "e">>

\* Settings.get_llm_provider
GetLlmProvider(s) ==
    IF Contains(Lower(s.llm_model), Gpt) THEN "openai"
    ELSE IF Contains(Lower(s.llm_model), Claude) THEN "anthropic"
    ELSE "openai"

\* bool(key) of an optional string: None and "" are false.
Truthy(key) == key # None /\ Get(key) # ""

\* LLMService._initialize_llm: the client of the provider the model name
\* selects, or ValueError when that provider's API key is missing.
InitializeLlm_NoKeyCheck(s) ==
    LET provider == GetLlmProvider(s)
    IN  Ok([provider |-> provider,
            api_key  |-> IF provider = "openai" THEN s.openai_api_key
                         ELSE s.anthropic_api_key])

InitializeLlm(s) ==
    LET provider == GetLlmProvider(s)
    IN  IF provider = "openai"
        THEN IF ~Truthy(s.openai_api_key) THEN Err("ValueError")
             ELSE Ok([provider |-> "openai", api_key |-> s.openai_api_key])
        ELSE IF provider = "anthropic"
        THEN IF ~Truthy(s.anthropic_api_key) THEN Err("ValueError")
             ELSE Ok([provider |-> "anthropic", api_key |-> s.anthropic_api_key])
        ELSE Err("ValueError")

\* LLMService.is_configured
IsConfigured_AnyKey(s) == Truthy(s.openai_api_key) \/ Truthy(s.anthropic_api_key)

IsConfigured(s) ==
    LET provider == GetLlmProvider(s)
    IN  IF provider = "openai" THEN Truthy(s.openai_api_key)
        ELSE IF provider = "anthropic" THEN Truthy(s.anthropic_api_key)
        ELSE FALSE

---------------------------------------------------------------------------
(* Inputs *)

Tasks == 1..2

\* Tasks that run one after the other.
SeqTasks == {1}

\* user_id arguments of process_message (0 is not a row id of the users table).
UserIds == {0, 1, 2}

Messages == {"Pizza 20 reais", "hi"}

X100 ==
    "xxxxxxxxxxxxxxxxxxxxxxxxxxxxxxxxxxxxxxxxxxxxxxxxxx" \o
    "xxxxxxxxxxxxxxxxxxxxxxxxxxxxxxxxxxxxxxxxxxxxxxxxxx"

\* A description of 501 characters.
LongDescription == X100 \o X100 \o X100 \o X100 \o X100 \o "x"

Opt(S) == {None} \cup {Some(v) : v \in S}

\* Field values an LLM completion may carry.
Payloads ==
    [is_expense  : Opt(BOOLEAN),
     description : Opt({"", "Pizza", LongDescription}),
     amount      : Opt({-5000, 0, 4, 20999}),
     category    : Opt({"Food", "Groceries"})]

Text(t) == [kind |-> "text", text |-> t]

\* What one call of the chain may do.
Completions ==
    {[kind |-> "error", text |-> <<>>]}
    \cup {Text(<<LBrace, Members(d), RBrace>>) : d \in Payloads}
    \cup {Text(<<Prose, LBrace, Members(d), RBrace, Prose>>) : d \in Payloads}
    \cup {Text(<<Prose>>), Text(<<RBrace, Prose, LBrace>>),
          Text(<<LBrace, Junk, RBrace>>)}

---------------------------------------------------------------------------
(* State machine *)

NoRequest == [user_id |-> 0, message |-> "", call |-> 0]

\* No process_message call was made.
CallsIdle ==
    /\ pc = [t \in Tasks |-> "idle"]
    /\ req = [t \in Tasks |-> NoRequest]
    /\ attemptLog = [t \in Tasks |-> <<>>]
    /\ extraction = [t \in Tasks |-> None]
    /\ raised = [t \in Tasks |-> None]
    /\ storeFault = [t \in Tasks |-> "none"]
    /\ outcome = [t \in Tasks |-> None]
    /\ before = [t \in Tasks |-> {}]
    /\ waits = [t \in Tasks |-> <<>>]
    /\ expenses = {}
    /\ calls = 0

SchemaIdle == schemaIn = None /\ schemaOut = None

ParseIdle == parseIn = None /\ parseOut = None

ConfigIdle ==
    /\ settings = None
    /\ service = None
    /\ configured = None
    /\ invoked = FALSE

ListIdle == query = None /\ listing = None

ApiIdle ==
    /\ users = {}
    /\ http = [t \in Tasks |-> None]
    /\ cancelled = [t \in Tasks |-> FALSE]
    /\ effects = [t \in Tasks |-> {}]

Init ==
    /\ pc = [t \in Tasks |-> "idle"]
    /\ req = [t \in Tasks |-> NoRequest]
    /\ attemptLog = [t \in Tasks |-> <<>>]
    /\ extraction = [t \in Tasks |-> None]
    /\ raised = [t \in Tasks |-> None]
    /\ storeFault = [t \in Tasks |-> "none"]
    /\ outcome = [t \in Tasks |-> None]
    /\ before = [t \in Tasks |-> {}]
    /\ waits = [t \in Tasks |-> <<>>]
    /\ expenses = {}
    /\ calls = 0
    /\ schemaIn = None
    /\ schemaOut = None
    /\ ParseIdle
    /\ ConfigIdle
    /\ ListIdle
    /\ ApiIdle

\* process_message(user_id, message, db) is called and reaches the first
\* chain.ainvoke of extract_expense.
Start(t) ==
    /\ pc[t] = "idle"
    /\ calls < MaxCalls
    /\ \E u \in UserIds, m \in Messages :
          req' = [req EXCEPT ![t] = [user_id |-> u, message |-> m, call |-> calls + 1]]
    /\ calls' = calls + 1
    /\ before' = [before EXCEPT ![t] = expenses]
    /\ pc' = [pc EXCEPT ![t] = "calling"]
    /\ UNCHANGED <<attemptLog, extraction, raised, storeFault, outcome, waits,
                   expenses, schemaIn, schemaOut, otherVars>>

\* An attempt succeeds: extract_expense returns, and process_message runs to
\* its return without another suspension point.
AttemptReturnsOn(t, completions, faults) ==
    /\ pc[t] = "calling"
    /\ \E c \in completions, f \in faults :
          LET res == ExtractAttempt(c)
              ext == Get(res.value)
              out == ProcessExtraction(req[t], ext, f, expenses)
          IN  /\ res.kind = "ok"
              /\ ~RetryOn(res)
              /\ f # "none" => ReachesStore(req[t], ext)
              /\ attemptLog' = [attemptLog EXCEPT ![t] = Append(@, res)]
              /\ extraction' = [extraction EXCEPT ![t] = res.value]
              /\ storeFault' = [storeFault EXCEPT ![t] = f]
              /\ outcome' = [outcome EXCEPT ![t] = out.outcome]
              /\ expenses' = out.rows
    /\ pc' = [pc EXCEPT ![t] = "done"]
    /\ UNCHANGED <<req, raised, before, waits, calls, schemaIn, schemaOut, otherVars>>

\* An attempt fails and tenacity sleeps before the next one.
AttemptRetriesOn(t, completions) ==
    /\ pc[t] = "calling"
    /\ ~ShouldStop(Len(attemptLog[t]) + 1)
    /\ \E c \in completions :
          LET res == ExtractAttempt(c)
          IN  /\ RetryOn(res)
              /\ attemptLog' = [attemptLog EXCEPT ![t] = Append(@, res)]
    /\ waits' = [waits EXCEPT ![t] =
                    Append(@, WaitExponential(Len(attemptLog[t]) + 1))]
    /\ pc' = [pc EXCEPT ![t] = "backoff"]
    /\ UNCHANGED <<req, extraction, raised, storeFault, outcome, before, expenses,
                   calls, schemaIn, schemaOut, otherVars>>

\* An attempt fails and tenacity gives up, because it was the last attempt
\* or because the error is not one it retries: it re-raises the error
\* (reraise=True) and the except branch of process_message answers.
AttemptRaisesOn(t, completions) ==
    /\ pc[t] = "calling"
    /\ \E c \in completions :
          LET res == ExtractAttempt(c)
          IN  /\ res.kind # "ok"
              /\ ShouldStop(Len(attemptLog[t]) + 1) \/ ~RetryOn(res)
              /\ attemptLog' = [attemptLog EXCEPT ![t] = Append(@, res)]
              /\ raised' = [raised EXCEPT ![t] =
                              Some(Reraised(Append(attemptLog[t], res)))]
              /\ outcome' = [outcome EXCEPT ![t] =
                               ExceptBranch(Reraised(Append(attemptLog[t], res)))]
    /\ pc' = [pc EXCEPT ![t] = "done"]
    /\ UNCHANGED <<req, extraction, storeFault, before, waits, expenses, calls,
                   schemaIn, schemaOut, otherVars>>

AttemptReturns(t) == AttemptReturnsOn(t, Completions, StoreFaults)

AttemptRetries(t) == AttemptRetriesOn(t, Completions)

AttemptRaises(t) == AttemptRaisesOn(t, Completions)

\* The backoff sleep ends and the next attempt calls the chain.
Wake(t) ==
    /\ pc[t] = "backoff"
    /\ pc' = [pc EXCEPT ![t] = "calling"]
    /\ UNCHANGED <<req, attemptLog, extraction, raised, storeFault, outcome,
                   before, waits, expenses, calls, schemaIn, schemaOut, otherVars>>

\* The caller takes the response; the task is free for the next request.
Return(t) ==
    /\ pc[t] = "done"
    /\ pc' = [pc EXCEPT ![t] = "idle"]
    /\ req' = [req EXCEPT ![t] = NoRequest]
    /\ attemptLog' = [attemptLog EXCEPT ![t] = <<>>]
    /\ extraction' = [extraction EXCEPT ![t] = None]
    /\ raised' = [raised EXCEPT ![t] = None]
    /\ storeFault' = [storeFault EXCEPT ![t] = "none"]
    /\ outcome' = [outcome EXCEPT ![t] = None]
    /\ before' = [before EXCEPT ![t] = {}]
    /\ waits' = [waits EXCEPT ![t] = <<>>]
    /\ UNCHANGED <<expenses, calls, schemaIn, schemaOut, otherVars>>

Next ==
    \E t \in SeqTasks :
        \/ Start(t)
        \/ AttemptReturns(t)
        \/ AttemptRetries(t)
        \/ AttemptRaises(t)
        \/ Wake(t)
        \/ Return(t)

Spec == Init /\ [][Next]_vars

---------------------------------------------------------------------------
(* The ExpenseExtraction constructor on its own *)

\* Float amounts handed to the constructor, in thousandths.
SchemaAmounts == {-5000, -10, 0, 4, 6, 125, 375, 20000, 20125, 20999}

SchemaInputs ==
    [is_expense  : Opt(BOOLEAN),
     description : Opt({"", "Pizza"}),
     amount      : Opt(SchemaAmounts),
     category    : Opt({"Food", "Other", "Groceries"})]

InitSchema ==
    /\ pc = [t \in Tasks |-> "idle"]
    /\ req = [t \in Tasks |-> NoRequest]
    /\ attemptLog = [t \in Tasks |-> <<>>]
    /\ extraction = [t \in Tasks |-> None]
    /\ raised = [t \in Tasks |-> None]
    /\ storeFault = [t \in Tasks |-> "none"]
    /\ outcome = [t \in Tasks |-> None]
    /\ before = [t \in Tasks |-> {}]
    /\ waits = [t \in Tasks |-> <<>>]
    /\ expenses = {}
    /\ calls = 0
    /\ schemaIn \in {Some(d) : d \in SchemaInputs}
    /\ schemaOut = None
    /\ ParseIdle
    /\ ConfigIdle
    /\ ListIdle
    /\ ApiIdle

\* ExpenseExtraction(**schemaIn) is evaluated.
Construct ==
    /\ schemaIn # None
    /\ schemaOut = None
    /\ schemaOut' = Some(ExpenseExtraction(Get(schemaIn)))
    /\ UNCHANGED <<pc, req, attemptLog, extraction, raised, storeFault, outcome,
                   before, waits, expenses, calls, schemaIn, otherVars>>

NextSchema == Construct

SpecSchema == InitSchema /\ [][NextSchema]_vars

---------------------------------------------------------------------------
(* Configuration and construction of the LLM service *)

\* LLM_MODEL values: gpt-4, GPT-4, claude-3, Claude-3, llama-3, claude-gpt
ModelNames ==
    {<<"g", "p", "t", "-", "4">>,
     <<"G", "P", "T", "-", "4">>,
     <<"c", "l", "a", "u", "d", "e", "-", "3">>,
     <<"C", "l", "a", "u", "d", "e", "-", "3">>,
     <<"l", "l", "a", "m", "a", "-", "3">>,
     <<"c", "l", "a", "u", "d", "e", "-", "g", "p", "t">>}

\* OPENAI_API_KEY / ANTHROPIC_API_KEY: unset, set to nothing, set.
ApiKeys == Opt({"", "sk-key"})

SettingsValues ==
    [llm_model         : ModelNames,
     openai_api_key    : ApiKeys,
     anthropic_api_key : ApiKeys]

InitConfig ==
    /\ CallsIdle
    /\ SchemaIdle
    /\ ParseIdle
    /\ settings \in {Some(s) : s \in SettingsValues}
    /\ service = None
    /\ configured = None
    /\ invoked = FALSE
    /\ ListIdle
    /\ ApiIdle

\* llm_service = LLMService(): __init__ runs _initialize_llm.
NewLLMService ==
    /\ service = None
    /\ service' = Some(InitializeLlm(Get(settings)))
    /\ UNCHANGED <<callVars, schemaVars, parseVars, settings, configured, invoked,
                   listVars, apiVars>>

\* is_configured() is called; it reads the settings only.
CallIsConfigured ==
    /\ configured = None
    /\ configured' = Some(IsConfigured(Get(settings)))
    /\ UNCHANGED <<callVars, schemaVars, parseVars, settings, service, invoked,
                   listVars, apiVars>>

\* extract_expense of a constructed service calls its client.
Invoke ==
    /\ \E sv \in service : sv.kind = "ok"
    /\ ~invoked
    /\ invoked' = TRUE
    /\ UNCHANGED <<callVars, schemaVars, parseVars, settings, service, configured,
                   listVars, apiVars>>

NextConfig ==
    \/ NewLLMService
    \/ CallIsConfigured
    \/ Invoke

SpecConfig == InitConfig /\ [][NextConfig]_vars

---------------------------------------------------------------------------
(* The parsing steps of extract_expense on their own *)

\* Field values of the JSON object inside a completion.
ParsePayloads ==
    [is_expense  : Opt(BOOLEAN),
     description : Opt({"Pizza"}),
     amount      : Opt({0, 20999}),
     category    : Opt({"Food", "Snacks"})]

\* Prose of at most n tokens; prose may hold braces of its own.
ProseUpTo(n) ==
    UNION {[1..k -> {Prose, LBrace, RBrace}] : k \in 0..n}

\* The JSON object holding the fields of data, as the text of a completion.
Object(data) == <<LBrace, Members(data), RBrace>>

\* Completion texts: prose, at most one JSON object, prose.
ParseInputs ==
    [pre  : ProseUpTo(MaxProse),
     data : Opt(ParsePayloads),
     post : ProseUpTo(MaxProse)]

\* response_text of a completion.
ResponseText(c) ==
    c.pre \o (IF c.data = None THEN <<>> ELSE Object(Get(c.data))) \o c.post

InitParse ==
    /\ CallsIdle
    /\ SchemaIdle
    /\ parseIn \in {Some(c) : c \in ParseInputs}
    /\ parseOut = None
    /\ ConfigIdle
    /\ ListIdle
    /\ ApiIdle

\* The parsing steps run on the text of parseIn: the strict parser, the
\* fallback, and the two as extract_expense chains them; the strict parser
\* also runs on the embedded object alone.
Parse ==
    /\ parseIn # None
    /\ parseOut = None
    /\ LET c    == Get(parseIn)
           text == ResponseText(c)
       IN  parseOut' =
               Some([strict   |-> ParserParse(text),
                     fallback |-> ExtractAndParseJson(text),
                     result   |-> ExtractAttempt(Text(text)),
                     embedded |-> IF c.data = None THEN None
                                  ELSE Some(ParserParse(Object(Get(c.data))))])
    /\ UNCHANGED <<callVars, schemaVars, parseIn, configVars, listVars, apiVars>>

NextParse == Parse

SpecParse == InitParse /\ [][NextParse]_vars

---------------------------------------------------------------------------
(* get_user_expenses on its own *)

\* default of the limit parameter
DefaultLimit == 10

\* Expenses tables of k rows: ids are 1..k in the order of the inserts, so
\* added_at does not decrease with the id; two inserts may share a time.
TablesOf(k) ==
    {{[id          |-> i,
       added_at    |-> time[i],
       user_id     |-> owner[i],
       description |-> "Pizza",
       amount      |-> 2100,
       category    |-> "Food",
       call        |-> 0] : i \in 1..k} :
        owner \in [1..k -> {1, 2}],
        time \in {f \in [1..k -> 1..MaxRows] :
                     \A i, j \in 1..k : i < j => f[i] <= f[j]}}

Tables == UNION {TablesOf(k) : k \in 0..MaxRows}

\* Arguments of get_user_expenses beside the session.
Queries ==
    [user_id : {1, 2},
     limit   : (0..(MaxRows + 1)) \cup {DefaultLimit},
     offset  : 0..(MaxRows + 1)]

InitList ==
    /\ pc = [t \in Tasks |-> "idle"]
    /\ req = [t \in Tasks |-> NoRequest]
    /\ attemptLog = [t \in Tasks |-> <<>>]
    /\ extraction = [t \in Tasks |-> None]
    /\ raised = [t \in Tasks |-> None]
    /\ storeFault = [t \in Tasks |-> "none"]
    /\ outcome = [t \in Tasks |-> None]
    /\ before = [t \in Tasks |-> {}]
    /\ waits = [t \in Tasks |-> <<>>]
    /\ expenses \in Tables
    /\ calls = 0
    /\ SchemaIdle
    /\ ParseIdle
    /\ ConfigIdle
    /\ ListIdle
    /\ ApiIdle

\* get_user_expenses is called; db is the table as the call finds it.
CallGetUserExpenses ==
    /\ query = None
    /\ \E q \in Queries :
          /\ query' = Some([user_id |-> q.user_id, db |-> expenses,
                            limit |-> q.limit, offset |-> q.offset])
          /\ \E result \in GetUserExpenses(expenses, q.user_id, q.limit, q.offset) :
                listing' = Some(result)
    /\ UNCHANGED <<callVars, schemaVars, parseVars, configVars, apiVars>>

NextList == CallGetUserExpenses

SpecList == InitList /\ [][NextList]_vars

---------------------------------------------------------------------------
(* POST /process: concurrent requests on one event loop *)
(* A request runs without suspension from its validation to the first      *)
(* chain.ainvoke; it can be suspended, and cancelled, only at an ainvoke    *)
(* and in a backoff sleep.                                                 *)

Digits == <<"0", "1", "2", "3", "4", "5", "6", "7", "8", "9">>

RECURSIVE Str(_)
\* str(n) of an int n >= 0
Str(n) ==
    IF n < 10 THEN Digits[n + 1]
    ELSE Str(n \div 10) \o Digits[(n % 10) + 1]

\* get_user_by_telegram_id: the rows of that telegram_id (at most one).
GetUserByTelegramId_NotFound(telegram_id, rows) == {}

GetUserByTelegramId(telegram_id, rows) ==
    {u \in rows : u.telegram_id = telegram_id}

\* create_user: the row added to the table.
CreateUser(telegram_id, rows) ==
    [id |-> NextId(rows), telegram_id |-> telegram_id]

\* numeric_user_id = user.id: the user id the handler passes to
\* process_message, for the user row found or created and the request's id.
NumericUserId_External(user, user_id) == user_id

NumericUserId(user, user_id) == user.id

\* A message of 500 characters.
FullMessage == X100 \o X100 \o X100 \o X100 \o X100

\* A message of 501 characters.
LongMessage == FullMessage \o "x"

\* JSON bodies of POST /process; a field may be missing.
Bodies ==
    [user_id : Opt({-1, 0, 7, 8}),
     message : Opt({"", "Pizza 20 reais", FullMessage, LongMessage})]

ApiPayloads ==
    {[is_expense  |-> Some(TRUE),
      description |-> Some("Pizza"),
      amount      |-> Some(20999),
      category    |-> Some("Food")],
     [is_expense  |-> Some(TRUE),
      description |-> Some("Pizza"),
      amount      |-> None,
      category    |-> Some("Food")],
     [is_expense  |-> Some(FALSE),
      description |-> None,
      amount      |-> None,
      category    |-> None]}

\* What one call of the chain may do for these requests.
ApiCompletions ==
    {[kind |-> "error", text |-> <<>>]}
    \cup {Text(Object(d)) : d \in ApiPayloads}
    \cup {Text(<<Prose>>)}

ApiFaults == {"none", "refresh"}

InitApi ==
    /\ CallsIdle
    /\ SchemaIdle
    /\ ParseIdle
    /\ ConfigIdle
    /\ ListIdle
    /\ ApiIdle

\* A request arrives.  FastAPI validates the body into a MessageRequest and
\* answers 422 without calling the handler when that fails; else the handler
\* finds or creates the user and calls process_message, which reaches the
\* first chain.ainvoke.
Receive(t) ==
    /\ pc[t] = "idle"
    /\ http[t] = None
    /\ \E body \in Bodies :
          /\ http' = [http EXCEPT ![t] = Some(body)]
          /\ IF ~MessageRequestValid(body)
             THEN /\ pc' = [pc EXCEPT ![t] = "rejected"]
                  /\ UNCHANGED <<req, before, calls, users, effects>>
             ELSE LET telegram_id == Str(Get(body.user_id))
                      found == GetUserByTelegramId(telegram_id, users)
                      user  == IF found # {} THEN Get(found)
                               ELSE CreateUser(telegram_id, users)
                  IN  /\ users' = users \cup {user}
                      /\ effects' =
                            [effects EXCEPT ![t] =
                                IF found # {} THEN {"get_user"}
                                ELSE {"get_user", "create_user"}]
                      /\ req' = [req EXCEPT ![t] =
                                    [user_id |-> NumericUserId(user, Get(body.user_id)),
                                     message |-> Get(body.message),
                                     call    |-> calls + 1]]
                      /\ calls' = calls + 1
                      /\ before' = [before EXCEPT ![t] = expenses]
                      /\ pc' = [pc EXCEPT ![t] = "calling"]
    /\ UNCHANGED <<attemptLog, extraction, raised, storeFault, outcome, waits,
                   expenses, schemaVars, parseVars, configVars, listVars, cancelled>>

\* The request's task is cancelled while it awaits chain.ainvoke: the
\* attempt ends with CancelledError, which tenacity does not retry and no
\* except clause catches.
CancelCall(t) ==
    /\ pc[t] = "calling"
    /\ cancelled' = [cancelled EXCEPT ![t] = TRUE]
    /\ LET res == Err("CancelledError")
       IN  /\ attemptLog' = [attemptLog EXCEPT ![t] = Append(@, res)]
           /\ IF RetryOn(res) /\ ~ShouldStop(Len(attemptLog[t]) + 1)
              THEN /\ pc' = [pc EXCEPT ![t] = "backoff"]
                   /\ UNCHANGED <<raised, outcome>>
              ELSE /\ raised' = [raised EXCEPT ![t] = Some(res.kind)]
                   /\ outcome' = [outcome EXCEPT ![t] = ExceptBranch(res.kind)]
                   /\ pc' = [pc EXCEPT ![t] =
                                IF Caught(res.kind) THEN "done" ELSE "cancelled"]
    /\ UNCHANGED <<req, extraction, storeFault, before, waits, expenses, calls,
                   schemaVars, parseVars, configVars, listVars, users, http, effects>>

\* The request's task is cancelled during the backoff sleep: CancelledError
\* leaves the retry loop from the sleep, outside any attempt.
CancelSleep(t) ==
    /\ pc[t] = "backoff"
    /\ cancelled' = [cancelled EXCEPT ![t] = TRUE]
    /\ raised' = [raised EXCEPT ![t] = Some("CancelledError")]
    /\ outcome' = [outcome EXCEPT ![t] = ExceptBranch("CancelledError")]
    /\ pc' = [pc EXCEPT ![t] =
                 IF Caught("CancelledError") THEN "done" ELSE "cancelled"]
    /\ UNCHANGED <<req, attemptLog, extraction, storeFault, before, waits, expenses,
                   calls,
                   schemaVars, parseVars, configVars, listVars, users, http, effects>>

NextApi ==
    \E t \in Tasks :
        \/ Receive(t)
        \/ AttemptReturnsOn(t, ApiCompletions, ApiFaults)
        \/ AttemptRetriesOn(t, ApiCompletions)
        \/ AttemptRaisesOn(t, ApiCompletions)
        \/ Wake(t)
        \/ CancelCall(t)
        \/ CancelSleep(t)

SpecApi == InitApi /\ [][NextApi]_vars

---------------------------------------------------------------------------
(* Properties *)

Done(t) == pc[t] = "done"

\* Rows of the expenses table inserted by the call task t is running.
Created(t) == {row \in expenses : row.call = req[t].call}

\* C1: every process_message call that ends has returned an ExpenseResponse
\* (it did not raise), whatever the LLM and the store did; the response says
\* success only when extraction returned an expense and no step of the
\* persistence branch failed, and a response with success=false carries a
\* non-empty message.
C1_AlwaysAnOutcome ==
    \A t \in Tasks :
        Done(t) =>
            /\ outcome[t] # None
            /\ \A o \in outcome[t] :
                  /\ o.success \in BOOLEAN
                  /\ o.success =>
                        /\ raised[t] = None
                        /\ storeFault[t] = "none"
                        /\ \E e \in extraction[t] : e.is_expense
                  /\ ~o.success => Len(o.message) > 0

\* A call whose db.refresh() raised ended with the error response.
C1_Witness ==
    \E t \in Tasks :
        /\ Done(t)
        /\ storeFault[t] = "refresh"
        /\ \E o \in outcome[t] : ~o.success /\ o.message = MsgError

\* C2: one extract_expense call invokes the LLM at most 3 times: no attempt
\* is pending or sleeping once 3 were made, and 3 failed attempts end the
\* call with the error raised to process_message.
C2_AtMostThreeAttempts ==
    \A t \in Tasks :
        /\ Len(attemptLog[t]) <= 3
        /\ pc[t] \in {"calling", "backoff"} => Len(attemptLog[t]) < 3
        /\ (Len(attemptLog[t]) = 3 /\ attemptLog[t][3].kind # "ok") =>
              /\ Done(t)
              /\ raised[t] # None
              /\ extraction[t] = None

\* Three attempts failed and the error was raised.
C2_Witness ==
    \E t \in Tasks :
        /\ Done(t)
        /\ Len(attemptLog[t]) = 3
        /\ \A k \in 1..3 : attemptLog[t][k].kind # "ok"
        /\ raised[t] # None

\* C3: the first attempt whose call and parse succeed is the last attempt:
\* extract_expense returns its result at once and calls the LLM no more.
C3_FirstSuccessReturned ==
    \A t \in Tasks :
        \A k \in 1..Len(attemptLog[t]) :
            attemptLog[t][k].kind = "ok" =>
                /\ k = Len(attemptLog[t])
                /\ extraction[t] = attemptLog[t][k].value
                /\ raised[t] = None
                /\ Done(t)

\* Two failed attempts, then the third succeeds and is returned.
C3_Witness ==
    \E t \in Tasks :
        /\ Len(attemptLog[t]) = 3
        /\ attemptLog[t][1].kind # "ok"
        /\ attemptLog[t][2].kind # "ok"
        /\ attemptLog[t][3].kind = "ok"
        /\ extraction[t] # None

\* C4: when the extraction says is_expense=false, the response is
\* success=false with the "doesn't look like an expense" message and no
\* expense id, and the expenses table is what it was when the call started,
\* whatever the other fields of the extraction are.
C4_NonExpenseLeavesStore ==
    \A t \in Tasks :
        (Done(t) /\ \E e \in extraction[t] : ~e.is_expense) =>
            /\ outcome[t] = Some([success |-> FALSE, message |-> MsgNotExpense,
                                  expense_id |-> None])
            /\ expenses = before[t]

\* A non-expense extraction that carries all three fields, over a table that
\* already holds a row.
C4_Witness ==
    \E t \in Tasks :
        /\ Done(t)
        /\ before[t] # {}
        /\ \E e \in extraction[t] :
              /\ ~e.is_expense
              /\ e.description = Some("Pizza")
              /\ e.amount = Some(21000)
              /\ e.category = Some("Food")

\* An extraction with is_expense=true and all three fields present, the
\* amount above zero and the category one of the enumeration.
CompleteTriple(e) ==
    /\ e.is_expense
    /\ e.description # None /\ Get(e.description) # ""
    /\ e.amount # None /\ Get(e.amount) > 0
    /\ e.category # None /\ e.category \subseteq ExpenseCategory

\* The call of task t inserted exactly one row, the one its response names,
\* holding the fields of extraction e.
PersistedOnce(t, e) ==
    /\ \E o \in outcome[t] :
          /\ o.success
          /\ o.expense_id # None
          /\ \A row \in Created(t) : o.expense_id = Some(row.id)
    /\ Cardinality(Created(t)) = 1
    /\ expenses = before[t] \cup Created(t)
    /\ Created(t) \cap before[t] = {}
    /\ \A row \in Created(t) :
          /\ row.amount * 10 = Round2(Get(e.amount))
          /\ row.category = Get(e.category)
          /\ row.description = Get(e.description)
          /\ row.user_id = req[t].user_id

C6_IncompleteRejected ==
    \A t \in Tasks :
        \A e \in extraction[t] :
            (Done(t) /\ e.is_expense
                /\ (e.description = None \/ e.amount = None \/ e.category = None))
            => /\ outcome[t] = Some([success |-> FALSE, message |-> MsgIncomplete,
                                     expense_id |-> None])
               /\ expenses = before[t]

\* An expense extraction without amount, the other two fields present.
C6_Witness ==
    \E t \in Tasks :
        /\ Done(t)
        /\ before[t] # {}
        /\ \E e \in extraction[t] :
              /\ e.is_expense
              /\ e.description = Some("Pizza")
              /\ e.amount = None
              /\ e.category = Some("Food")

\* C7: when extract_expense raises (its retries are exhausted), the response
\* is success=false with the generic error message and no expense id, and
\* the expenses table is what it was when the call started.
C7_ExtractionErrorResponse ==
    \A t \in Tasks :
        (Done(t) /\ raised[t] # None) =>
            /\ outcome[t] = Some([success |-> FALSE, message |-> MsgError,
                                  expense_id |-> None])
            /\ expenses = before[t]

\* extract_expense raised over a table that already holds a row.
C7_Witness ==
    \E t \in Tasks :
        /\ Done(t)
        /\ raised[t] = Some("ProviderError")
        /\ before[t] # {}

\* C8: a response carries an expense id exactly when success is true, and
\* the id is that of a row the same call inserted.
C8_IdIffSuccess ==
    \A t \in Tasks :
        \A o \in outcome[t] :
            /\ o.expense_id # None <=> o.success
            /\ o.expense_id # None =>
                  \E row \in expenses \ before[t] :
                      /\ o.expense_id = Some(row.id)
                      /\ row.call = req[t].call

\* A success response naming the second row of the table.
C8_Witness ==
    \E t \in Tasks :
        /\ Done(t)
        /\ \E o \in outcome[t] : o.success /\ o.expense_id = Some(2)

\* C9 as stated: whenever process_message answers success=false, no row the
\* call inserted is in the table.
C9_NoPartialSuccess ==
    \A t \in Tasks :
        \A o \in outcome[t] :
            (Done(t) /\ ~o.success) => Created(t) = {}

\* C10: constructing an ExpenseExtraction with an amount <= 0 fails
\* validation whatever the other fields are.
C10_NonPositiveAmountRejected ==
    \A d \in schemaIn :
        \A r \in schemaOut :
            (\E a \in d.amount : a <= 0) => r.kind = "ValidationError" /\ r.value = None

\* The constructor ran on amount -5 with is_expense=false and the other
\* fields valid.
C10_Witness ==
    /\ schemaOut # None
    /\ \E d \in schemaIn :
          /\ d.amount = Some(-5000)
          /\ d.is_expense = Some(FALSE)
          /\ d.description = Some("Pizza")
          /\ d.category = Some("Food")

\* C11 as stated: every ExpenseExtraction that was constructed carries, when
\* it carries an amount, an amount strictly greater than zero (the value held
\* after validate_amount rounded it).
C11_StoredAmountPositive ==
    \A r \in schemaOut :
        r.kind = "ok" => \A e \in r.value : \A a \in e.amount : a > 0

\* round-half-up of an amount in thousandths to 2 decimals
HalfUp(v) == ((v + 5) \div 10) * 10

\* C12 as stated: the amount of a constructed ExpenseExtraction is the input
\* amount rounded half-up to 2 decimals (20.999 gives 21.00, an exact .xx5
\* input goes up).
C12_RoundedHalfUp ==
    \A d \in schemaIn :
        \A r \in schemaOut :
            r.kind = "ok" =>
                \A e \in r.value : e.amount = {HalfUp(a) : a \in d.amount}

\* C12: the amount of a constructed ExpenseExtraction is a multiple of 0.01
\* at distance at most 0.005 from the input amount, and when the input lies
\* exactly halfway between two such multiples it is the one whose last digit
\* is even (0.125 gives 0.12, 0.375 gives 0.38); 20.999 gives 21.00.
C12_RoundedToNearestTiesToEven ==
    \A d \in schemaIn :
        \A r \in schemaOut :
            r.kind = "ok" =>
                \A e \in r.value :
                    /\ (e.amount = None) <=> (d.amount = None)
                    /\ \A a \in d.amount :
                          \A b \in e.amount :
                              /\ b % 10 = 0
                              /\ b - a <= 5
                              /\ a - b <= 5
                              /\ (b - a = 5 \/ a - b = 5) => (b \div 10) % 2 = 0
                              /\ a = 20999 => b = 21000

\* The constructor rounded the exact tie 20.125 down to 20.12.
C12_Witness ==
    \E d \in schemaIn :
        \E r \in schemaOut :
            /\ d.amount = Some(20125)
            /\ r.kind = "ok"
            /\ \E e \in r.value : e.amount = Some(20120)

\* C13 as stated: a result extract_expense returns with is_expense=false
\* carries no description, no amount and no category.
C13_FieldsOnlyWhenExpense ==
    \A o \in parseOut :
        o.result.kind = "ok" =>
            \A e \in o.result.value :
                ~e.is_expense =>
                    e.description = None /\ e.amount = None /\ e.category = None

\* C13: a result extract_expense returns carries description, amount and
\* category exactly when the JSON object of the completion carries them,
\* whether is_expense is true or false; description and category are the
\* object's own.
C13_FieldsAsInCompletion ==
    \A c \in parseIn :
        \A o \in parseOut :
            o.result.kind = "ok" =>
                \A e \in o.result.value :
                    \A d \in c.data :
                        /\ e.is_expense = Get(d.is_expense)
                        /\ e.description = d.description
                        /\ e.category = d.category
                        /\ (e.amount = None) <=> (d.amount = None)

\* extract_expense returned is_expense=false together with a description, an
\* amount and a category, from an object wrapped in prose.
C13_Witness ==
    \E c \in parseIn :
        \E o \in parseOut :
            /\ c.pre = <<Prose>>
            /\ o.result.kind = "ok"
            /\ \E e \in o.result.value :
                  /\ ~e.is_expense
                  /\ e.description = Some("Pizza")
                  /\ e.amount = Some(21000)
                  /\ e.category = Some("Food")

\* Whether a sequence of tokens holds the character c.
Holds(text, c) == \E i \in 1..Len(text) : text[i].ch = c

\* Whether the fields of d make a valid ExpenseExtraction.
ValidObject(d) == ExpenseExtraction(d).kind = "ok"

\* C14 as stated: for a completion made of prose, one JSON object that is
\* valid against the schema, and trailing prose, the fallback yields the
\* ExpenseExtraction that strict parsing of the object alone yields.
C14_FallbackEqualsStrictOfObject ==
    \A c \in parseIn :
        \A o \in parseOut :
            \A d \in c.data :
                ValidObject(d) =>
                    /\ o.fallback.kind = "ok"
                    /\ Some(o.fallback) = o.embedded

\* C14: the same, for prose that has no "{" before the object and no "}"
\* after it; extract_expense then returns that ExpenseExtraction.
C14_FallbackEqualsStrictOfObjectBraceFree ==
    \A c \in parseIn :
        \A o \in parseOut :
            \A d \in c.data :
                (ValidObject(d) /\ ~Holds(c.pre, "{") /\ ~Holds(c.post, "}")) =>
                    /\ o.fallback.kind = "ok"
                    /\ Some(o.fallback) = o.embedded
                    /\ o.result = o.fallback

\* The strict parser refused a text with prose on both sides of a valid
\* object (a "}" in the leading prose, a "{" in the trailing prose) and the
\* fallback returned the object's ExpenseExtraction.
C14_Witness ==
    \E c \in parseIn :
        \E o \in parseOut :
            /\ c.pre = <<Prose, RBrace>>
            /\ c.post = <<LBrace, Prose>>
            /\ \E d \in c.data : ValidObject(d) /\ d.amount = Some(20999)
            /\ o.strict.kind = "OutputParserException"
            /\ o.fallback.kind = "ok"
            /\ Some(o.fallback) = o.embedded

\* Whether the Settings s hold a credential for provider p.
HasCredential(s, p) ==
    IF p = "openai" THEN s.openai_api_key \notin {None, Some("")}
    ELSE s.anthropic_api_key \notin {None, Some("")}

\* The provider a model name selects when the name is searched as written.
ProviderOfNameAsWritten(s) ==
    IF Contains(s.llm_model, Gpt) THEN "openai"
    ELSE IF Contains(s.llm_model, Claude) THEN "anthropic"
    ELSE "openai"

\* C15 as stated: when the provider selected by the model name (contains
\* "gpt": OpenAI; else contains "claude": Anthropic; otherwise OpenAI) has no
\* credential, constructing the LLMService fails with a ConfigurationError,
\* and no LLM call is made.
C15_MissingCredentialConfigurationError ==
    \A s \in settings :
        ~HasCredential(s, ProviderOfNameAsWritten(s)) =>
            /\ ~invoked
            /\ \A sv \in service : sv.kind = "ConfigurationError"

\* C15: when the provider selected by the lower-cased model name has no
\* credential (unset or empty), constructing the LLMService fails at once,
\* with a ValueError, so no service exists and no LLM call is made; with the
\* credential the construction gives that provider's client.
C15_MissingCredentialValueError ==
    \A s \in settings :
        LET name     == Lower(s.llm_model)
            selected == IF Contains(name, Gpt) THEN "openai"
                        ELSE IF Contains(name, Claude) THEN "anthropic"
                        ELSE "openai"
        IN  /\ ~HasCredential(s, selected) =>
                  /\ ~invoked
                  /\ \A sv \in service : sv.kind = "ValueError" /\ sv.value = None
            /\ HasCredential(s, selected) =>
                  \A sv \in service :
                      /\ sv.kind = "ok"
                      /\ \A client \in sv.value : client.provider = selected

\* Construction failed for the model Claude-3 with only the OpenAI key set.
C15_Witness ==
    /\ \E s \in settings :
          /\ s.llm_model = <<"C", "l", "a", "u", "d", "e", "-", "3">>
          /\ s.openai_api_key = Some("sk-key")
          /\ s.anthropic_api_key = None
    /\ \E sv \in service : sv.kind = "ValueError"
    /\ ~invoked

\* C16: is_configured() returns a boolean (it does not raise), and it returns
\* true exactly when the credential of the provider get_llm_provider selects
\* is set to a non-empty value, whether or not the other provider's
\* credential is.
C16_ConfiguredIffSelectedCredential ==
    \A s \in settings :
        \A c \in configured :
            /\ c \in BOOLEAN
            /\ GetLlmProvider(s) = "openai" =>
                  (c <=> s.openai_api_key \notin {None, Some("")})
            /\ GetLlmProvider(s) = "anthropic" =>
                  (c <=> s.anthropic_api_key \notin {None, Some("")})
            /\ GetLlmProvider(s) \in {"openai", "anthropic"}

\* is_configured() returned false for a claude model whose Anthropic key is
\* unset while the OpenAI key is set.
C16_Witness ==
    /\ configured = Some(FALSE)
    /\ \E s \in settings :
          /\ s.llm_model = <<"c", "l", "a", "u", "d", "e", "-", "3">>
          /\ s.openai_api_key = Some("sk-key")
          /\ s.anthropic_api_key = None

\* A body the request schema does not accept: a field is missing, the user
\* id is not positive, the message is empty or longer than 500 characters.
Malformed(body) ==
    \/ body.user_id = None
    \/ body.message = None
    \/ \E u \in body.user_id : u <= 0
    \/ \E m \in body.message : Len(m) = 0 \/ Len(m) > 500

\* C17: a malformed request is answered without reaching the handler: for it
\* no user is looked up or created, no process_message call starts, no LLM
\* attempt is made and no expense row is inserted, whatever the other
\* request does meanwhile; a well-formed request is not rejected.
C17_MalformedRejectedBeforeEngine ==
    \A t \in Tasks :
        \A body \in http[t] :
            /\ Malformed(body) =>
                  /\ pc[t] = "rejected"
                  /\ effects[t] = {}
                  /\ req[t] = NoRequest
                  /\ attemptLog[t] = <<>>
                  /\ extraction[t] = None
                  /\ outcome[t] = None
                  /\ \A row \in expenses : \E u \in Tasks \ {t} : row.call = req[u].call
                  /\ \A user \in users :
                        \E u \in Tasks \ {t} : "create_user" \in effects[u]
            /\ ~Malformed(body) =>
                  /\ pc[t] # "rejected"
                  /\ "get_user" \in effects[t]

\* A request with a 501-character message was rejected while the other
\* request, well formed, created its user and persisted an expense.
C17_Witness ==
    \E t \in Tasks :
        /\ pc[t] = "rejected"
        /\ \E body \in http[t] : body.user_id = Some(7) /\ body.message = Some(LongMessage)
        /\ \E u \in Tasks \ {t} :
              /\ Done(u)
              /\ "create_user" \in effects[u]
              /\ \E o \in outcome[u] : o.success
        /\ Cardinality(users) = 1
        /\ Cardinality(expenses) = 1

\* C19: a request cancelled at the LLM call or in a backoff sleep ends there:
\* it is neither sleeping nor calling again, no attempt of it returned a
\* result, process_message returned no response for it, and no expense row
\* of its call is in the table.
C19_CancelledEndsThere ==
    \A t \in Tasks :
        cancelled[t] =>
            /\ pc[t] = "cancelled"
            /\ raised[t] = Some("CancelledError")
            /\ extraction[t] = None
            /\ outcome[t] = None
            /\ \A k \in 1..Len(attemptLog[t]) : attemptLog[t][k].kind # "ok"
            /\ Created(t) = {}

\* A request was cancelled in the backoff sleep after one failed attempt,
\* and the other request persisted its expense.
C19_Witness ==
    \E t \in Tasks :
        /\ cancelled[t]
        /\ pc[t] = "cancelled"
        /\ Len(attemptLog[t]) = 1
        /\ attemptLog[t][1].kind = "ProviderError"
        /\ \E u \in Tasks \ {t} : Done(u) /\ Created(u) # {}

\* The requests that process_message answered with success=true.
Succeeded == {t \in Tasks : Done(t) /\ \E o \in outcome[t] : o.success}

\* C20 as stated: with several process_message calls in flight, each call
\* makes at most 3 attempts of its own, the row a call persists holds its own
\* user and the fields of its own extraction, a call answers success=true
\* exactly when its own extraction is a complete expense, and the number of
\* expense rows equals the number of calls that answered success=true.
C20_IndependentCallsCountedBySuccess ==
    /\ \A t \in Tasks :
          /\ Len(attemptLog[t]) <= StopAfterAttempt
          /\ \A row \in Created(t) :
                \E e \in extraction[t] :
                    /\ row.user_id = req[t].user_id
                    /\ row.description = Get(e.description)
                    /\ row.category = Get(e.category)
          /\ Done(t) =>
                \A o \in outcome[t] :
                    o.success => \E e \in extraction[t] : e.is_expense
    /\ Cardinality(expenses) = Cardinality(Succeeded)

\* The rows of a list.
Elements(l) == {l[i] : i \in 1..Len(l)}

\* C18: get_user_expenses(userId, limit, offset), for limit >= 0 and
\* offset >= 0, returns rows owned by userId, each once, newest first; the
\* rows it leaves out are the offset newest ones (all of them when the user
\* owns fewer) and rows no newer than any returned; it returns
\* min(limit, max(0, n - offset)) rows when the user owns n; and the table is
\* as it was.
C18_PageOfOwnExpensesNewestFirst ==
    \A q \in query :
        \A l \in listing :
            LET own     == {row \in q.db : row.user_id = q.user_id}
                n       == Cardinality(own)
                rest    == IF n - q.offset > 0 THEN n - q.offset ELSE 0
                skipped == IF q.offset < n THEN q.offset ELSE n
            IN  /\ Elements(l) \subseteq own
                /\ \A i, j \in 1..Len(l) : i # j => l[i] # l[j]
                /\ \A i, j \in 1..Len(l) : i < j => l[i].added_at >= l[j].added_at
                /\ Len(l) = IF q.limit < rest THEN q.limit ELSE rest
                /\ \E S \in SUBSET (own \ Elements(l)) :
                      /\ Cardinality(S) = skipped
                      /\ \A a \in S :
                            \A b \in own \ S : a.added_at >= b.added_at
                      /\ \A a \in Elements(l) :
                            \A b \in own \ (S \cup Elements(l)) :
                                a.added_at >= b.added_at
                /\ expenses = q.db

\* Of three rows of user 1 inserted at three times, with limit 1 and offset 1
\* the call returned the second newest.
C18_Witness ==
    \E q \in query :
        \E l \in listing :
            /\ q.user_id = 1 /\ q.limit = 1 /\ q.offset = 1
            /\ Cardinality(q.db) = 3
            /\ \A row \in q.db : row.user_id = 1 /\ row.added_at = row.id
            /\ Len(l) = 1
            /\ l[1].id = 2

\* C21 as stated: the delay before the 2nd attempt is 2 time-units, the
\* delay before the 3rd attempt is 4, and no delay exceeds 10.
C21_BackoffTwoThenFour ==
    \A t \in Tasks :
        /\ Len(waits[t]) >= 1 => waits[t][1] = 2
        /\ Len(waits[t]) >= 2 => waits[t][2] = 4
        /\ \A k \in 1..Len(waits[t]) : waits[t][k] <= 10

\* C21: one delay is slept after each failed attempt that is retried; the
\* delay before the 2nd attempt is 2 time-units and the delay before the 3rd
\* attempt is 2 as well (1 and 2, raised to the minimum 2); no delay is below
\* 2 or above 10.
C21_BackoffTwoThenTwo ==
    \A t \in Tasks :
        /\ pc[t] = "backoff" => Len(waits[t]) = Len(attemptLog[t])
        /\ pc[t] = "calling" => Len(waits[t]) = Len(attemptLog[t])
        /\ Len(waits[t]) <= 2
        /\ Len(waits[t]) >= 1 => waits[t][1] = 2
        /\ Len(waits[t]) >= 2 => waits[t][2] = 2
        /\ \A k \in 1..Len(waits[t]) : waits[t][k] >= 2 /\ waits[t][k] <= 10

\* The call sleeps before its 3rd attempt, after a delay of 2 and now one of 2.
C21_Witness ==
    \E t \in Tasks :
        /\ pc[t] = "backoff"
        /\ Len(attemptLog[t]) = 2
        /\ waits[t] = <<2, 2>>

\* C22: when the 3rd attempt of extract_expense fails too, the error the
\* call raises to process_message is the error of that 3rd attempt, whatever
\* the first two were, and it is raised as it is, not wrapped in a RetryError.
C22_LastErrorSurfaced ==
    \A t \in Tasks :
        (Done(t) /\ Len(attemptLog[t]) = 3 /\ attemptLog[t][3].kind # "ok") =>
            /\ raised[t] = Some(attemptLog[t][3].kind)
            /\ raised[t] # Some("RetryError")

\* A provider failure, a completion that is not JSON and a completion whose
\* fields fail validation: the call raised the ValidationError.
C22_Witness ==
    \E t \in Tasks :
        /\ Done(t)
        /\ Len(attemptLog[t]) = 3
        /\ attemptLog[t][1].kind = "ProviderError"
        /\ attemptLog[t][2].kind = "JSONDecodeError"
        /\ attemptLog[t][3].kind = "ValidationError"
        /\ raised[t] = Some("ValidationError")

\* C23: the fallback takes the text from the first "{" to the last "}",
\* both included; it returns a result only when both braces exist, that slice
\* is one JSON object and the object's fields pass validation, and the result
\* is then the ExpenseExtraction of those fields.  With no "{", no "}", the
\* last "}" before the first "{", a slice that is not JSON, or invalid fields
\* (such as an amount that is not positive), it raises and so does the
\* attempt.
C23_FallbackSliceOrFailure ==
    \A c \in parseIn :
        \A o \in parseOut :
            LET text   == ResponseText(c)
                opens  == {i \in 1..Len(text) : text[i].ch = "{"}
                closes == {i \in 1..Len(text) : text[i].ch = "}"}
                first  == CHOOSE i \in opens : \A j \in opens : i <= j
                last   == CHOOSE i \in closes : \A j \in closes : i >= j
                isObj  == /\ opens # {} /\ closes # {}
                          /\ last = first + 2
                          /\ text[first + 1].ch = "members"
                fields == Get(text[first + 1].body)
                valid  == /\ fields.is_expense # None
                          /\ fields.category \subseteq ExpenseCategory
                          /\ \A a \in fields.amount : a > 0
            IN  IF isObj /\ valid
                THEN /\ o.fallback.kind = "ok"
                     /\ \A e \in o.fallback.value :
                           /\ e.is_expense = Get(fields.is_expense)
                           /\ e.description = fields.description
                           /\ e.category = fields.category
                           /\ (e.amount = None) <=> (fields.amount = None)
                ELSE /\ o.fallback.kind # "ok"
                     /\ o.fallback.value = None
                     /\ o.strict.kind # "ok"
                     /\ o.result.kind # "ok"
                     /\ o.result.value = None

\* The last "}" stands before the first "{" and the fallback raised.
C23_Witness ==
    \E c \in parseIn :
        \E o \in parseOut :
            /\ c.pre = <<RBrace, LBrace>>
            /\ c.data = None
            /\ c.post = <<>>
            /\ o.fallback.kind = "JSONDecodeError"
            /\ o.result.kind = "JSONDecodeError"

\* The errors of an attempt whose completion did not parse or validate.
ParseFailures ==
    {"OutputParserException", "ValueError", "JSONDecodeError", "ValidationError"}

\* C24: a failed attempt is handled the same whether the provider failed or
\* the completion failed to parse or validate: it counts as one of the 3
\* attempts, after the 1st or 2nd such failure a delay is slept and a new LLM
\* call is made, and an error is raised to process_message only when the 3rd
\* attempt failed.
C24_ParseFailureRetriedLikeProviderFailure ==
    \A t \in Tasks :
        /\ Len(attemptLog[t]) <= StopAfterAttempt
        /\ \A k \in 1..Len(attemptLog[t]) :
              attemptLog[t][k].kind \in ParseFailures \cup {"ProviderError"} =>
                  IF k < StopAfterAttempt
                  THEN /\ Len(waits[t]) >= k
                       /\ \/ k < Len(attemptLog[t])
                          \/ pc[t] \in {"backoff", "calling"}
                       /\ k = Len(attemptLog[t]) => raised[t] = None
                  ELSE /\ Done(t)
                       /\ raised[t] = Some(attemptLog[t][k].kind)

\* A completion that was not JSON, then a provider failure, then a completion
\* that parsed: extract_expense returned the expense of the 3rd attempt.
C24_Witness ==
    \E t \in Tasks :
        /\ Done(t)
        /\ Len(attemptLog[t]) = 3
        /\ attemptLog[t][1].kind = "JSONDecodeError"
        /\ attemptLog[t][2].kind = "ProviderError"
        /\ attemptLog[t][3].kind = "ok"
        /\ extraction[t] = attemptLog[t][3].value
        /\ \E e \in extraction[t] : e.is_expense

\* The requests that passed validation and entered the handler.
Accepted == {t \in Tasks : \E body \in http[t] : ~Malformed(body)}

\* The telegram_id the handler derives from the request of task t.
TelegramIdOf(t) == Str(Get(Get(http[t]).user_id))

\* C25: in every state reached by concurrent /process requests on one event
\* loop, no two user rows share a telegram_id or an id, the users are exactly
\* those of the requests accepted so far, and every accepted request passed
\* the find-or-create step and went on to extraction: when several requests
\* bring the same new external id, one of them created the row and the
\* others found it.
C25_OneUserRowPerExternalId ==
    /\ \A u1, u2 \in users :
          (u1.telegram_id = u2.telegram_id \/ u1.id = u2.id) => u1 = u2
    /\ {u.telegram_id : u \in users} = {TelegramIdOf(t) : t \in Accepted}
    /\ \A t \in Accepted :
          /\ pc[t] \in {"calling", "backoff", "done", "cancelled"}
          /\ "get_user" \in effects[t]
    /\ \A t1, t2 \in Accepted :
          (t1 # t2 /\ TelegramIdOf(t1) = TelegramIdOf(t2)) =>
              ~("create_user" \in effects[t1] /\ "create_user" \in effects[t2])

\* Two requests in flight at once for the same new external id 7: one row
\* for "7", created by one of them and found by the other.
C25_Witness ==
    /\ \A t \in Tasks : \E body \in http[t] : body.user_id = Some(7)
    /\ \A t \in Tasks : pc[t] \in {"calling", "backoff"}
    /\ Cardinality(users) = 1
    /\ \E t \in Tasks : "create_user" \in effects[t]
    /\ \E t \in Tasks : "create_user" \notin effects[t]

UserRowKept ==
    \A t \in Accepted :
        \E u \in users : u.telegram_id = TelegramIdOf(t)

\* The request ended without success: an Outcome with success false, or the
\* cancellation of its task.
Failed(t) ==
    \/ cancelled[t]
    \/ Done(t) /\ \E o \in outcome[t] : ~o.success

\* C27: a request from an unknown user id creates the user row before
\* extraction starts and the row stays stored whatever the Outcome is; a
\* failed message leaves the expense rows as they were.
C27_UserKeptAndFailureAddsNoExpense ==
    /\ UserRowKept
    /\ \A t \in Accepted : Failed(t) => Created(t) = {}

====
